---- MODULE Spec2Model ----
(***************************************************************************)
(* actix-request-hook: the RequestHook builder, the RequestHookMiddleware  *)
(* it installs, and the per-request future of RequestHookMiddleware::call. *)
(*                                                                         *)
(* The executor is single-threaded and cooperative: a request task runs    *)
(* from one suspension point (.await) to the next without interleaving.    *)
(* The suspension points of call() are payload.next().await (one per       *)
(* chunk) and svc.call(req).await; each action below is the code between   *)
(* two of them.  The order of the calls inside one such run is kept in     *)
(* `log`.                                                                  *)
(***************************************************************************)
EXTENDS Integers, Sequences, FiniteSets

VARIABLES
    inner,        \* the Inner behind Rc<Inner>: exclude, exclude_regex, observers
    installed,    \* new_transform has cloned the Rc into a middleware
    panicked,     \* a builder call has panicked (unwrap)
    registered,   \* the observers handed to register(), in the order of the calls
    addedPaths,   \* the paths handed to exclude() by the calls that returned
    addedPatterns, \* the patterns handed to exclude_regex() by the calls that returned
    pc,           \* per request: position of its task
    path,         \* per request: req.path()
    inbound,      \* per request: the body stream as the transport delivers it
    reqPayload,   \* per request: the payload attached to the ServiceRequest
    payload,      \* per request: the local `payload` taken from the request
    body,         \* per request: the BytesMut buffer `body`
    request_id,   \* per request: the local `request_id`
    handlerReq,   \* per request: the payload of the request the handler was called with
    handlerRead,  \* per request: what the handler has read from its request's payload
    res,          \* per request: what the handler's future completed with
    result,       \* per request: the output of the future returned by call()
    log,          \* calls made so far, in order: observer callbacks, handler call/return
    now,          \* the reading of the monotonic clock (Instant::now())
    start,        \* per request: the local `start`
    svcMutBorrows, \* the requests whose task holds a RefMut of the service's RefCell
    panicAt       \* per request: the place in the list of the observer whose callback panicked

vars == <<inner, installed, panicked, registered, addedPaths, addedPatterns, pc, path, inbound, reqPayload, payload,
          body, request_id, handlerReq, handlerRead, res, result, log,
          now, start, svcMutBorrows, panicAt>>

cfgVars == <<inner, installed, panicked, registered, addedPaths, addedPatterns>>

reqVars == <<pc, path, inbound, reqPayload, payload, body, request_id,
             handlerReq, handlerRead, res, result, log, now, start, svcMutBorrows, panicAt>>

----------------------------------------------------------------------------
(* Bounds *)

MaxReqs == 2         \* requests submitted to the middleware instance
MaxPatterns == 1     \* exclude_regex calls
MaxTime == 2         \* readings of the clock after the first

Reqs == 1..MaxReqs

(* Request identifiers: the values Uuid::new_v4() can return; NoId where  *)
(* none was generated.                                                    *)
Uuids == 1..MaxReqs
NoId == 0

(* The observers an application registers, each Rc registered once. *)
ObserverPool == {"o1", "o2"}

----------------------------------------------------------------------------
(* Paths and patterns.  A path is the sequence of its characters. *)

Bye == <<"/", "b", "y", "e">>
Hey == <<"/", "h", "e", "y">>
Num12 == <<"/", "1", "2">>

Paths == {Bye, Hey, Num12}

ExcludeArgs == {Bye}

Digits == {"0", "1", "2", "3", "4", "5", "6", "7", "8", "9"}

(* A pattern is the sequence of its tokens: "^", "$", "\\d", "\\d+", "(" or a  *)
(* literal character.                                                      *)
PatDigitsPlus == <<"^", "/", "\\d+", "$">>     \* ^/\d+$
PatUnclosed == <<"(">>                         \* ( : a syntax error

PatternArgs == {PatDigitsPlus, PatUnclosed}

(* Regex::new succeeds: here, no group is left open. *)
ValidPattern(pat) == \A k \in 1..Len(pat) : pat[k] # "("

RECURSIVE MatchAt(_, _, _, _)
MatchAt(pat, k, s, i) ==
    IF k > Len(pat) THEN TRUE
    ELSE IF pat[k] = "^" THEN i = 1 /\ MatchAt(pat, k + 1, s, i)
    ELSE IF pat[k] = "$" THEN i = Len(s) + 1 /\ MatchAt(pat, k + 1, s, i)
    ELSE IF pat[k] = "\\d" THEN
        i <= Len(s) /\ s[i] \in Digits /\ MatchAt(pat, k + 1, s, i + 1)
    ELSE IF pat[k] = "\\d+" THEN
        i <= Len(s) /\ s[i] \in Digits
        /\ (MatchAt(pat, k + 1, s, i + 1) \/ MatchAt(pat, k, s, i + 1))
    ELSE i <= Len(s) /\ s[i] = pat[k] /\ MatchAt(pat, k + 1, s, i + 1)

(* Regex search: a match may start anywhere in the text. *)
RegexIsMatch(pat, s) == \E i \in 1..(Len(s) + 1) : MatchAt(pat, 1, s, i)

(* RegexSet::is_match: some pattern of the set matches. *)
RegexSetIsMatch(set, s) == \E k \in 1..Len(set) : RegexIsMatch(set[k], s)

(* Mutant: a trailing slash is dropped before the exact comparison. *)
Excluded_TrimSlash(cfg, p) ==
    LET trimmed == IF Len(p) > 1 /\ p[Len(p)] = "/" THEN SubSeq(p, 1, Len(p) - 1) ELSE p
    IN trimmed \in cfg.exclude \/ RegexSetIsMatch(cfg.exclude_regex, p)

(* Mutant: the pattern set is not consulted. *)
Excluded_ExactOnly(cfg, p) == p \in cfg.exclude

(* lib.rs 164-165 *)
Excluded(cfg, p) == p \in cfg.exclude \/ RegexSetIsMatch(cfg.exclude_regex, p)

----------------------------------------------------------------------------
(* Body streams.  An item is <<"ok", chunk>> or <<"err", <<>> >>. *)

OkItem(c) == <<"ok", c>>
ErrItem == <<"err", <<>> >>

(* The streams the transport delivers: no body, one chunk, two chunks of   *)
(* different sizes, a read error at once, a read error after a chunk.      *)
Streams ==
    { <<>>,
      <<OkItem(<<1>>)>>,
      <<OkItem(<<1>>), OkItem(<<2, 3>>)>>,
      <<ErrItem>>,
      <<OkItem(<<1>>), ErrItem>> }

(* The first request submitted draws its body from Streams, the requests  *)
(* submitted while it is in flight from LaterStreams.                      *)
LaterStreams == { <<>>, <<OkItem(<<2, 3>>)>> }

StreamsOf(r) == IF r = 1 THEN Streams ELSE LaterStreams

RECURSIVE Concat(_)
Concat(items) ==
    IF items = <<>> THEN <<>> ELSE Head(items)[2] \o Concat(Tail(items))

(* A payload: the items still to come and whether end-of-stream follows them. *)
PayloadNone == [kind |-> "none", items |-> <<>>, eof |-> TRUE]
PayloadInbound(q) == [kind |-> "inbound", items |-> q, eof |-> TRUE]

(* Mutant: the payload is created without end-of-stream. *)
get_payload_NoEof(bytes) ==
    [kind |-> "repacked", items |-> <<OkItem(bytes)>>, eof |-> FALSE]

(* util.rs get_payload: h1::Payload::create(true), then unread_data(bytes). *)
get_payload(bytes) == [kind |-> "repacked", items |-> <<OkItem(bytes)>>, eof |-> TRUE]

----------------------------------------------------------------------------
(* Handler outcomes: Result<ServiceResponse<B>, Error>. *)

NoErr == "none"
OkResponse(st) == [ok |-> TRUE, status |-> st, err |-> NoErr]
ErrOutcome(e) == [ok |-> FALSE, status |-> 0, err |-> e]

ErrorKinds == {"ErrorBadRequest", "ErrorInternalServerError"}

Outcomes == {OkResponse(200)} \cup {ErrOutcome(e) : e \in ErrorKinds}

(* err.error_response().status(): the status the host maps the error to. *)
ErrorResponseStatus(e) == IF e = "ErrorBadRequest" THEN 400 ELSE 500

(* Mutant: an error is reported as 500 whatever it maps to. *)
StatusOf_ErrIs500(out) == IF out.ok THEN out.status ELSE 500

(* lib.rs 202-212: the status of either branch of `res`. *)
StatusOf(out) == IF out.ok THEN out.status ELSE ErrorResponseStatus(out.err)

(* Mutant: a handler error is turned into a response carrying its status. *)
ResponseOf_Swallow(out) ==
    IF out.ok THEN out ELSE OkResponse(ErrorResponseStatus(out.err))

(* lib.rs 202-212, 223: the `response` the future returns. *)
ResponseOf(out) == out

NoOutcome == [ok |-> FALSE, status |-> 0, err |-> NoErr]

(* The output of the future call() returned: none yet, a Result, a panic. *)
Unfinished == [kind |-> "none", out |-> NoOutcome]
Returned(out) == [kind |-> "returned", out |-> out]
Panic == [kind |-> "panic", out |-> NoOutcome]

----------------------------------------------------------------------------
(* The log: one entry per observer callback and per handler call/return. *)

NoObs == "none"

(* Every entry carries the clock reading `at` at which the call was made. *)
StartedEvent(r, o, id, b) ==
    [ev |-> "started", r |-> r, obs |-> o, id |-> id, status |-> 0, body |-> b,
     elapsed |-> 0, at |-> now]
EndedEvent(r, o, id, st, el) ==
    [ev |-> "ended", r |-> r, obs |-> o, id |-> id, status |-> st, body |-> <<>>,
     elapsed |-> el, at |-> now]
CallEvent(r) ==
    [ev |-> "call", r |-> r, obs |-> NoObs, id |-> NoId, status |-> 0, body |-> <<>>,
     elapsed |-> 0, at |-> now]
RetEvent(r) ==
    [ev |-> "ret", r |-> r, obs |-> NoObs, id |-> NoId, status |-> 0, body |-> <<>>,
     elapsed |-> 0, at |-> now]

(* What an observer leaves in the buffer it was given: RequestStartData is *)
(* passed by value (observer.rs 17-23, 62), so an implementation may write *)
(* into its `body`.  Observer "o1" overwrites it, "o2" only reads it.      *)
ObserverLeaves(o, b) == IF o = "o1" THEN <<0>> ELSE b

(* Mutant: the observers are handed one shared buffer. *)
SourceAfter_Shared(source, given) == given

(* lib.rs 193: handler_body.clone() is a buffer of its own; what becomes   *)
(* of it does not reach handler_body.                                      *)
SourceAfter(source, given) == source

(* lib.rs 187-195: for observer in &observers { on_request_started(..) } *)
RECURSIVE StartFanoutFrom(_, _, _, _, _)
StartFanoutFrom(observers, k, r, id, handler_body) ==
    IF k > Len(observers) THEN <<>>
    ELSE <<StartedEvent(r, observers[k], id, handler_body)>>
         \o StartFanoutFrom(observers, k + 1, r, id,
                SourceAfter(handler_body, ObserverLeaves(observers[k], handler_body)))

StartFanout(observers, r, id, b) == StartFanoutFrom(observers, 1, r, id, b)

(* Mutant: the end notification carries no identifier of the request. *)
EndFanout_OtherId(observers, r, id, st, el) ==
    [k \in 1..Len(observers) |-> EndedEvent(r, observers[k], NoId, st, el)]

(* lib.rs 213-221: for observer in &observers { on_request_ended(..) } *)
EndFanout(observers, r, id, st, el) ==
    [k \in 1..Len(observers) |-> EndedEvent(r, observers[k], id, st, el)]

(* Mutant: an observer's panic is caught and the loop goes on. *)
FanoutUpTo_Isolated(events, i) == events

(* lib.rs 187-195, 213-221: the callback of observer i panics; the panic   *)
(* unwinds out of the `for` loop and of the task: the observers up to i    *)
(* have been called, the ones after it are not.                            *)
FanoutUpTo(events, i) == SubSeq(events, 1, i)

(* Mutant: the handler is called before the observers are told. *)
DispatchEvents_CallFirst(observers, r, id, b) ==
    <<CallEvent(r)>> \o StartFanout(observers, r, id, b)

(* lib.rs 184-198: after the drain: start fan-out, set_payload, svc.call(req). *)
DispatchEvents(observers, r, id, b) ==
    StartFanout(observers, r, id, b) \o <<CallEvent(r)>>

(* Mutant: after an error the handler is called once more. *)
CompletionEvents_Retry(observers, r, id, out, el) ==
    <<RetEvent(r)>>
    \o (IF out.ok THEN <<>> ELSE <<CallEvent(r), RetEvent(r)>>)
    \o EndFanout(observers, r, id, StatusOf(out), el)

(* lib.rs 198-221: svc.call(req).await has returned `res`: end fan-out. *)
CompletionEvents(observers, r, id, out, el) ==
    <<RetEvent(r)>> \o EndFanout(observers, r, id, StatusOf(out), el)

(* lib.rs 172: Instant::now() *)
InstantNow == now

(* Mutant: the start instant is subtracted the wrong way round. *)
Elapsed_Reversed(started) == started - now

(* lib.rs 200: start.elapsed() *)
Elapsed(started) == now - started

(* Mutant: the task keeps a RefMut of the service while it awaits it. *)
BorrowKept_AcrossAwait(r) == {r}

(* lib.rs 167, 198: svc.call(req) on Rc<RefCell<S>> borrows the cell for   *)
(* the call that creates the future; no borrow is left when the future is  *)
(* awaited.                                                                *)
BorrowKept(r) == {}

(* RefCell::borrow(): fails (panics) while a RefMut is out. *)
CanBorrow == svcMutBorrows = {}

BorrowPanic == [kind |-> "panic_borrow", out |-> NoOutcome]

(* Mutant: the identifier may be one an earlier request was given. *)
NewUuids_Any(used) == Uuids

(* Uuid::new_v4(): a value no earlier request of this run was given. *)
NewUuids(used) == Uuids \ used

UsedUuids == {request_id[r] : r \in Reqs} \ {NoId}

----------------------------------------------------------------------------
(* RequestHook: the builder (lib.rs 77-110) *)

Init ==
    /\ inner = [exclude |-> {}, exclude_regex |-> <<>>, observers |-> <<>>]
    /\ installed = FALSE
    /\ panicked = FALSE
    /\ registered = <<>>
    /\ addedPaths = {}
    /\ addedPatterns = {}
    /\ pc = [r \in Reqs |-> "idle"]
    /\ path = [r \in Reqs |-> <<>>]
    /\ inbound = [r \in Reqs |-> <<>>]
    /\ reqPayload = [r \in Reqs |-> PayloadNone]
    /\ payload = [r \in Reqs |-> PayloadNone]
    /\ body = [r \in Reqs |-> <<>>]
    /\ request_id = [r \in Reqs |-> NoId]
    /\ handlerReq = [r \in Reqs |-> PayloadNone]
    /\ handlerRead = [r \in Reqs |-> [bytes |-> <<>>, end |-> "unread"]]
    /\ res = [r \in Reqs |-> NoOutcome]
    /\ result = [r \in Reqs |-> Unfinished]
    /\ log = <<>>
    /\ now = 0
    /\ start = [r \in Reqs |-> 0]
    /\ svcMutBorrows = {}
    /\ panicAt = [r \in Reqs |-> 0]

(* Mutant: the configuration can be changed through any holder of the Rc. *)
RcGetMutIsSome_Always == TRUE

(* Rc::get_mut(&mut self.0): Some only while the hook holds the only Rc;  *)
(* new_transform (lib.rs 139) clones the Rc into the middleware.           *)
RcGetMutIsSome == ~installed

(* The builder runs in the code that configures the application, before    *)
(* the server hands requests to the middleware.  A panic ends that code.   *)
Configuring == ~panicked /\ \A r \in Reqs : pc[r] = "idle"

(* Mutant: the set keeps only the path inserted last. *)
HashSetInsert_Replace(set, p) == {p}

(* lib.rs 91: inner.exclude.insert(path.into()) *)
HashSetInsert(set, p) == set \cup {p}

(* lib.rs 87-93 *)
Exclude(p) ==
    /\ Configuring
    /\ IF RcGetMutIsSome
       THEN /\ inner' = [inner EXCEPT !.exclude = HashSetInsert(@, p)]
            /\ addedPaths' = addedPaths \cup {p}
            /\ UNCHANGED panicked
       ELSE /\ panicked' = TRUE
            /\ UNCHANGED <<inner, addedPaths>>
    /\ UNCHANGED <<installed, registered, addedPatterns, reqVars>>

(* Mutant: the new set is built from the new pattern alone. *)
PatternsWith_OnlyNew(old, pat) == <<pat>>

(* lib.rs 98-99: patterns().to_vec(), then push(path.into()) *)
PatternsWith(old, pat) == Append(old, pat)

(* Mutant: the set is built without compiling its patterns. *)
RegexSetNewIsOk_Lazy(patterns) == TRUE

(* lib.rs 100: RegexSet::new(patterns) is Ok: every pattern compiles. *)
RegexSetNewIsOk(patterns) == \A k \in 1..Len(patterns) : ValidPattern(patterns[k])

(* The exclude_regex calls a run makes before the middleware is installed *)
(* are at most n.                                                          *)
MayAddPattern(n) == Len(inner.exclude_regex) < n \/ installed

(* lib.rs 96-103 *)
ExcludeRegex(pat) ==
    /\ Configuring
    /\ IF RcGetMutIsSome
       THEN LET patterns == PatternsWith(inner.exclude_regex, pat)
            IN IF RegexSetNewIsOk(patterns)
               THEN /\ inner' = [inner EXCEPT !.exclude_regex = patterns]
                    /\ addedPatterns' = addedPatterns \cup {pat}
                    /\ UNCHANGED panicked
               ELSE /\ panicked' = TRUE
                    /\ UNCHANGED <<inner, addedPatterns>>
       ELSE /\ panicked' = TRUE
            /\ UNCHANGED <<inner, addedPatterns>>
    /\ UNCHANGED <<installed, registered, addedPaths, reqVars>>

(* Mutant: the observer is put in front of the list. *)
VecPush_Front(v, o) == <<o>> \o v

(* lib.rs 107: observers.push(observer) *)
VecPush(v, o) == Append(v, o)

(* lib.rs 106-109 *)
Register(o) ==
    /\ Configuring
    /\ installed \/ \A k \in 1..Len(inner.observers) : inner.observers[k] # o
    /\ IF RcGetMutIsSome
       THEN /\ inner' = [inner EXCEPT !.observers = VecPush(@, o)]
            /\ registered' = Append(registered, o)
            /\ UNCHANGED panicked
       ELSE /\ panicked' = TRUE
            /\ UNCHANGED <<inner, registered>>
    /\ UNCHANGED <<installed, addedPaths, addedPatterns, reqVars>>

(* lib.rs 136-141 *)
NewTransform ==
    /\ ~panicked
    /\ ~installed
    /\ installed' = TRUE
    /\ UNCHANGED <<inner, panicked, registered, addedPaths, addedPatterns, reqVars>>

----------------------------------------------------------------------------
(* RequestHookMiddleware::call (lib.rs 161-227) *)

Serving == installed /\ ~panicked

(* lib.rs 161-180: call(), and for a request that is not excluded the     *)
(* first poll of the future up to its first payload.next().await.  An      *)
(* excluded request is handed to the service at once, as it came.          *)
(* take_payload leaves Payload::None in the request.                       *)
Call(r, p, q) ==
    /\ Serving
    /\ pc[r] = "idle"
    /\ \A r2 \in Reqs : r2 < r => pc[r2] # "idle"
    /\ path' = [path EXCEPT ![r] = p]
    /\ inbound' = [inbound EXCEPT ![r] = q]
    /\ IF Excluded(inner, p)
       THEN /\ reqPayload' = [reqPayload EXCEPT ![r] = PayloadInbound(q)]
            /\ IF CanBorrow
               THEN /\ pc' = [pc EXCEPT ![r] = "passthrough"]
                    /\ handlerReq' = [handlerReq EXCEPT ![r] = PayloadInbound(q)]
                    /\ log' = Append(log, CallEvent(r))
                    /\ svcMutBorrows' = svcMutBorrows \cup BorrowKept(r)
                    /\ UNCHANGED result
               ELSE /\ pc' = [pc EXCEPT ![r] = "failed"]
                    /\ result' = [result EXCEPT ![r] = BorrowPanic]
                    /\ UNCHANGED <<handlerReq, log, svcMutBorrows>>
            /\ UNCHANGED <<request_id, payload, start>>
       ELSE /\ pc' = [pc EXCEPT ![r] = "draining"]
            /\ start' = [start EXCEPT ![r] = InstantNow]
            /\ \E id \in NewUuids(UsedUuids) :
                   request_id' = [request_id EXCEPT ![r] = id]
            /\ payload' = [payload EXCEPT ![r] = PayloadInbound(q)]
            /\ reqPayload' = [reqPayload EXCEPT ![r] = PayloadNone]
            /\ UNCHANGED <<handlerReq, log, svcMutBorrows, result>>
    /\ UNCHANGED <<cfgVars, body, handlerRead, res, now, panicAt>>

(* lib.rs 181: body.extend_from_slice(chunk) *)
ExtendFromSlice(buf, chunk) == buf \o chunk

(* lib.rs 180-182: payload.next().await yields Some(Ok(chunk)). *)
DrainChunk(r) ==
    /\ Serving
    /\ pc[r] = "draining"
    /\ payload[r].items # <<>>
    /\ Head(payload[r].items)[1] = "ok"
    /\ body' = [body EXCEPT ![r] = ExtendFromSlice(@, Head(payload[r].items)[2])]
    /\ payload' = [payload EXCEPT ![r].items = Tail(@)]
    /\ UNCHANGED <<cfgVars, pc, path, inbound, reqPayload,
                   request_id, handlerReq, handlerRead, res, result, log,
                   now, start, svcMutBorrows, panicAt>>

(* lib.rs 181: chunk.unwrap() on Some(Err(e)). *)
DrainUnwrapErr == Panic

(* lib.rs 180-182: payload.next().await yields Some(Err(e)). *)
DrainError(r) ==
    /\ Serving
    /\ pc[r] = "draining"
    /\ payload[r].items # <<>>
    /\ Head(payload[r].items)[1] = "err"
    /\ payload' = [payload EXCEPT ![r].items = Tail(@)]
    /\ result' = [result EXCEPT ![r] = DrainUnwrapErr]
    /\ pc' = [pc EXCEPT ![r] = "failed"]
    /\ UNCHANGED <<cfgVars, path, inbound, reqPayload, body,
                   request_id, handlerReq, handlerRead, res, log,
                   now, start, svcMutBorrows, panicAt>>

(* lib.rs 180, 184-198: payload.next().await yields None; the task runs on  *)
(* to svc.call(req).await.                                                  *)
Dispatch(r) ==
    /\ Serving
    /\ pc[r] = "draining"
    /\ payload[r].items = <<>>
    /\ payload[r].eof
    /\ LET handler_body == body[r]
           repacked_payload == get_payload(body[r])
       IN /\ reqPayload' = [reqPayload EXCEPT ![r] = repacked_payload]
          /\ IF CanBorrow
             THEN /\ handlerReq' = [handlerReq EXCEPT ![r] = repacked_payload]
                  /\ log' = log \o DispatchEvents(inner.observers, r, request_id[r],
                                                  handler_body)
                  /\ pc' = [pc EXCEPT ![r] = "handling"]
                  /\ svcMutBorrows' = svcMutBorrows \cup BorrowKept(r)
                  /\ UNCHANGED result
             ELSE /\ log' = log \o StartFanout(inner.observers, r, request_id[r],
                                               handler_body)
                  /\ pc' = [pc EXCEPT ![r] = "failed"]
                  /\ result' = [result EXCEPT ![r] = BorrowPanic]
                  /\ UNCHANGED <<handlerReq, svcMutBorrows>>
    /\ UNCHANGED <<cfgVars, path, inbound, payload, body,
                   request_id, handlerRead, res, now, start, panicAt>>

(* lib.rs 187-195: the body is drained and on_request_started of the i-th  *)
(* observer panics.  set_payload and svc.call (lib.rs 197-198) are not     *)
(* reached.                                                                *)
DispatchPanic(r, i) ==
    /\ Serving
    /\ pc[r] = "draining"
    /\ payload[r].items = <<>>
    /\ payload[r].eof
    /\ i \in 1..Len(inner.observers)
    /\ log' = log \o FanoutUpTo(StartFanout(inner.observers, r, request_id[r], body[r]), i)
    /\ pc' = [pc EXCEPT ![r] = "failed"]
    /\ result' = [result EXCEPT ![r] = Panic]
    /\ panicAt' = [panicAt EXCEPT ![r] = i]
    /\ UNCHANGED <<cfgVars, path, inbound, reqPayload, payload, body, request_id,
                   handlerReq, handlerRead, res, now, start, svcMutBorrows>>

HandlerPending(r) == pc[r] \in {"handling", "passthrough"}

(* Reading a payload to its end (h1 payload readany: the next item, else  *)
(* end-of-stream if eof, else pending): the bytes read, and how it ended.  *)
RECURSIVE ReadToEnd(_, _)
ReadToEnd(pl, acc) ==
    IF pl.items # <<>>
    THEN IF Head(pl.items)[1] = "ok"
         THEN ReadToEnd([pl EXCEPT !.items = Tail(@)], acc \o Head(pl.items)[2])
         ELSE [bytes |-> acc, end |-> "err"]
    ELSE [bytes |-> acc, end |-> IF pl.eof THEN "eof" ELSE "pending"]

NotRead == [bytes |-> <<>>, end |-> "unread"]

(* The downstream handler reads the body of the request the middleware    *)
(* dispatched to it (lib.rs 197-198).                                      *)
HandlerRead(r) ==
    /\ Serving
    /\ pc[r] = "handling"
    /\ handlerRead[r] = NotRead
    /\ handlerRead' = [handlerRead EXCEPT ![r] = ReadToEnd(reqPayload[r], <<>>)]
    /\ reqPayload' = [reqPayload EXCEPT ![r].items = <<>>]
    /\ UNCHANGED <<cfgVars, pc, path, inbound, payload, body,
                   request_id, handlerReq, res, result, log,
                   now, start, svcMutBorrows, panicAt>>

(* lib.rs 167 / 198-223: the handler's future completes with `res`. *)
HandlerReturn(r, out) ==
    /\ Serving
    /\ HandlerPending(r)
    /\ IF pc[r] = "passthrough"
       THEN /\ log' = Append(log, RetEvent(r))
            /\ result' = [result EXCEPT ![r] = Returned(out)]
       ELSE /\ log' = log \o CompletionEvents(inner.observers, r, request_id[r], out,
                                               Elapsed(start[r]))
            /\ result' = [result EXCEPT ![r] = Returned(ResponseOf(out))]
    /\ res' = [res EXCEPT ![r] = out]
    /\ pc' = [pc EXCEPT ![r] = "done"]
    /\ svcMutBorrows' = svcMutBorrows \ {r}
    /\ UNCHANGED <<cfgVars, path, inbound, reqPayload, payload,
                   body, request_id, handlerReq, handlerRead, now, start, panicAt>>

(* lib.rs 198-221: the handler's future completes with `res` and           *)
(* on_request_ended of the i-th observer panics: `response` (lib.rs 223)   *)
(* is not returned.                                                        *)
ReturnPanic(r, i, out) ==
    /\ Serving
    /\ pc[r] = "handling"
    /\ i \in 1..Len(inner.observers)
    /\ log' = log \o FanoutUpTo(CompletionEvents(inner.observers, r, request_id[r], out,
                                                  Elapsed(start[r])), 1 + i)
    /\ res' = [res EXCEPT ![r] = out]
    /\ result' = [result EXCEPT ![r] = Panic]
    /\ pc' = [pc EXCEPT ![r] = "failed"]
    /\ panicAt' = [panicAt EXCEPT ![r] = i]
    /\ svcMutBorrows' = svcMutBorrows \ {r}
    /\ UNCHANGED <<cfgVars, path, inbound, reqPayload, payload,
                   body, request_id, handlerReq, handlerRead, now, start>>

(* Mutant: dropping the task notifies the observers of the end. *)
DropEvents_NotifyEnd(observers, r, id) == EndFanout(observers, r, id, 500, 0)

(* Events a dropped task still produces: none (the future has no Drop). *)
DropEvents(observers, r, id) == <<>>

(* The host drops the future at a suspension point. *)
Cancel(r) ==
    /\ Serving
    /\ pc[r] \in {"draining", "handling", "passthrough"}
    /\ pc' = [pc EXCEPT ![r] = "cancelled"]
    /\ log' = log \o DropEvents(inner.observers, r, request_id[r])
    /\ svcMutBorrows' = svcMutBorrows \ {r}
    /\ UNCHANGED <<cfgVars, path, inbound, reqPayload, payload,
                   body, request_id, handlerReq, handlerRead, res, result,
                   now, start, panicAt>>

(* Time passes while requests are in flight. *)
Tick ==
    /\ Serving
    /\ \E r \in Reqs : pc[r] \in {"draining", "handling", "passthrough"}
    /\ now < MaxTime
    /\ now' = now + 1
    /\ UNCHANGED <<cfgVars, pc, path, inbound, reqPayload, payload, body, request_id,
                   handlerReq, handlerRead, res, result, log, start, svcMutBorrows,
                   panicAt>>

----------------------------------------------------------------------------

Next ==
    \/ \E p \in ExcludeArgs : Exclude(p)
    \/ \E pat \in PatternArgs : MayAddPattern(MaxPatterns) /\ ExcludeRegex(pat)
    \/ \E o \in ObserverPool : Register(o)
    \/ NewTransform
    \/ \E r \in Reqs, p \in Paths : \E q \in StreamsOf(r) : Call(r, p, q)
    \/ \E r \in Reqs : DrainChunk(r)
    \/ \E r \in Reqs : DrainError(r)
    \/ \E r \in Reqs : Dispatch(r)
    \/ \E r \in Reqs : HandlerRead(r)
    \/ \E r \in Reqs, out \in Outcomes : HandlerReturn(r, out)
    \/ \E r \in Reqs : Cancel(r)

Spec == Init /\ [][Next]_vars

----------------------------------------------------------------------------
(* The builder and the exclusion check of call() on a wider choice of      *)
(* rules and paths: the paths and the pattern of the crate's example       *)
(* (lib.rs 31-34), paths that differ from an excluded one by a trailing    *)
(* slash or by letter case, and up to MaxMatcherPatterns patterns.         *)

MaxMatcherPatterns == 2     \* exclude_regex calls

ByeSlash == <<"/", "b", "y", "e", "/">>
ByeUpper == <<"/", "B", "y", "e">>
Num1 == <<"/", "1">>
Num123456 == <<"/", "1", "2", "3", "4", "5", "6">>

PatDigit == <<"^", "/", "\\d", "$">>           \* ^/\d$

MatcherPaths == {Bye, ByeSlash, ByeUpper, Hey, Num1, Num123456}
MatcherExcludeArgs == {Bye, Hey}
MatcherPatternArgs == {PatDigit, PatDigitsPlus, PatUnclosed}

NextMatcher ==
    \/ \E p \in MatcherExcludeArgs : Exclude(p)
    \/ \E pat \in MatcherPatternArgs :
           MayAddPattern(MaxMatcherPatterns) /\ ExcludeRegex(pat)
    \/ NewTransform
    \/ \E r \in Reqs, p \in MatcherPaths : Call(r, p, <<>>)

SpecMatcher == Init /\ [][NextMatcher]_vars

----------------------------------------------------------------------------
(* Requests with observers whose callbacks may panic. *)

PanicPaths == {Bye, Hey}

NextPanic ==
    \/ \E p \in ExcludeArgs : Exclude(p)
    \/ \E o \in ObserverPool : Register(o)
    \/ NewTransform
    \/ \E r \in Reqs, p \in PanicPaths : \E q \in StreamsOf(r) : Call(r, p, q)
    \/ \E r \in Reqs : DrainChunk(r)
    \/ \E r \in Reqs : DrainError(r)
    \/ \E r \in Reqs : Dispatch(r)
    \/ \E r \in Reqs, out \in Outcomes : HandlerReturn(r, out)
    \/ \E r \in Reqs : Cancel(r)
    \/ \E r \in Reqs, i \in 1..Cardinality(ObserverPool) : DispatchPanic(r, i)
    \/ \E r \in Reqs, i \in 1..Cardinality(ObserverPool), out \in Outcomes :
           ReturnPanic(r, i, out)

SpecPanic == Init /\ [][NextPanic]_vars

----------------------------------------------------------------------------
(* Observed requests under a running clock. *)

NextTimed ==
    \/ \E o \in ObserverPool : Register(o)
    \/ NewTransform
    \/ \E r \in Reqs : Call(r, Hey, <<OkItem(<<1>>)>>)
    \/ \E r \in Reqs : DrainChunk(r)
    \/ \E r \in Reqs : Dispatch(r)
    \/ \E r \in Reqs : HandlerReturn(r, OkResponse(200))
    \/ Tick

SpecTimed == Init /\ [][NextTimed]_vars

----------------------------------------------------------------------------
(* What the claims speak of *)

Submitted(r) == pc[r] # "idle"

(* The request's path is in the excluded set or matches an excluded pattern. *)
PathIsExcluded(r) ==
    \/ path[r] \in inner.exclude
    \/ \E k \in 1..Len(inner.exclude_regex) :
           RegexIsMatch(inner.exclude_regex[k], path[r])

NonExcluded(r) == Submitted(r) /\ ~PathIsExcluded(r)

Observers == {inner.observers[k] : k \in 1..Len(inner.observers)}

(* Places in the log of the events of one kind of request r. *)
Events(r, e) == {k \in 1..Len(log) : log[k].r = r /\ log[k].ev = e}
EventsBy(r, e, o) == {k \in Events(r, e) : log[k].obs = o}
Notifications(r) == Events(r, "started") \cup Events(r, "ended")

----------------------------------------------------------------------------
(* C1: within one non-excluded request every observer's on_request_started *)
(* precedes the call of the downstream handler, the handler's return       *)
(* precedes every on_request_ended, and no end-notification is delivered   *)
(* before the handler has returned.                                        *)
C1_StartHandlerEndOrder ==
    \A r \in Reqs : NonExcluded(r) =>
        /\ \A c \in Events(r, "call") :
              /\ \A k \in Events(r, "started") : k < c
              /\ \A o \in Observers : \E k \in EventsBy(r, "started", o) : k < c
        /\ \A t \in Events(r, "ret") : \E c \in Events(r, "call") : c < t
        /\ \A e \in Events(r, "ended") : \E t \in Events(r, "ret") : t < e

C1_Witness ==
    \E r \in Reqs :
        /\ NonExcluded(r)
        /\ pc[r] = "done"
        /\ Len(inner.observers) = 2
        /\ Events(r, "ended") # {}

(* C2: a non-excluded request delivers at most one start and one end       *)
(* notification per observer, exactly one of each once it has completed,   *)
(* and the end notification carries the identifier of the start.           *)
C2_OneStartOneEndSameId ==
    \A r \in Reqs : NonExcluded(r) =>
        /\ \A k \in Notifications(r) : log[k].obs \in Observers
        /\ \A o \in Observers :
              LET starts == EventsBy(r, "started", o)
                  ends == EventsBy(r, "ended", o)
              IN /\ Cardinality(starts) <= 1
                 /\ Cardinality(ends) <= 1
                 /\ pc[r] = "done" => Cardinality(starts) = 1 /\ Cardinality(ends) = 1
                 /\ \A k \in starts : log[k].id \in Uuids
                 /\ \A e \in ends : \E k \in starts : log[k].id = log[e].id

C2_Witness ==
    \E r \in Reqs :
        /\ NonExcluded(r)
        /\ pc[r] = "done"
        /\ \A o \in ObserverPool :
              Cardinality(EventsBy(r, "started", o)) = 1
              /\ Cardinality(EventsBy(r, "ended", o)) = 1

(* C3: a request whose path is in the excluded set or matches an excluded  *)
(* pattern reaches no observer, its body is not drained by the middleware, *)
(* the handler is called with the request as it came, and the result is    *)
(* the handler's; other requests through the same middleware are observed. *)
C3_ExcludedPassthrough ==
    \A r \in Reqs :
        /\ Submitted(r) /\ PathIsExcluded(r) =>
              /\ Notifications(r) = {}
              /\ payload[r] = PayloadNone /\ body[r] = <<>>
              /\ Cardinality(Events(r, "call")) = 1
              /\ handlerReq[r] = PayloadInbound(inbound[r])
              /\ pc[r] = "done" => result[r] = Returned(res[r])
        /\ NonExcluded(r) /\ pc[r] = "done" =>
              \A o \in Observers : EventsBy(r, "started", o) # {}
                                   /\ EventsBy(r, "ended", o) # {}

C3_Witness ==
    \E r1, r2 \in Reqs :
        /\ Observers # {}
        /\ pc[r1] = "done" /\ path[r1] \notin inner.exclude /\ PathIsExcluded(r1)
        /\ inbound[r1] # <<>> /\ Notifications(r1) = {}
        /\ pc[r2] = "done" /\ NonExcluded(r2) /\ Notifications(r2) # {}

(* C4: the body the handler reads from the repackaged stream of a          *)
(* non-excluded request is the original body, chunk after chunk in arrival *)
(* order, for any chunking and for no body at all, and the stream then     *)
(* ends.                                                                   *)
C4_BodyRoundTrip ==
    \A r \in Reqs : NonExcluded(r) =>
        /\ pc[r] \in {"handling", "done"} /\ handlerRead[r].end = "unread" =>
              ReadToEnd(reqPayload[r], <<>>) =
                  [bytes |-> Concat(inbound[r]), end |-> "eof"]
        /\ handlerRead[r].end # "unread" =>
              handlerRead[r] = [bytes |-> Concat(inbound[r]), end |-> "eof"]

C4_Witness ==
    \E r1, r2 \in Reqs :
        /\ NonExcluded(r1) /\ Len(inbound[r1]) = 2
        /\ handlerRead[r1] = [bytes |-> <<1, 2, 3>>, end |-> "eof"]
        /\ NonExcluded(r2) /\ inbound[r2] = <<>>
        /\ handlerRead[r2] = [bytes |-> <<>>, end |-> "eof"]

(* C5: the future of a non-excluded request returns the handler's own      *)
(* outcome, the same response or the same error, whatever the observers.   *)
C5_OutcomeUnmodified ==
    \A r \in Reqs : NonExcluded(r) /\ pc[r] = "done" =>
        /\ res[r] \in Outcomes
        /\ result[r] = Returned(res[r])

C5_Witness ==
    \E r1, r2 \in Reqs :
        /\ inner.observers = <<>>
        /\ NonExcluded(r1) /\ pc[r1] = "done" /\ ~res[r1].ok
        /\ NonExcluded(r2) /\ pc[r2] = "done" /\ res[r2].ok

(* C6: the status of an end notification is the response's status when the *)
(* handler succeeded and the status its error maps to when it failed; an   *)
(* end notification is delivered in both cases, the same to every observer.*)
C6_EndStatus ==
    \A r \in Reqs : NonExcluded(r) /\ pc[r] = "done" =>
        \A o \in Observers :
            /\ EventsBy(r, "ended", o) # {}
            /\ \A e \in EventsBy(r, "ended", o) :
                  log[e].status = IF res[r].ok THEN res[r].status
                                  ELSE ErrorResponseStatus(res[r].err)

C6_Witness ==
    \E r1, r2 \in Reqs :
        /\ Len(inner.observers) = 2
        /\ NonExcluded(r1) /\ pc[r1] = "done" /\ res[r1].err = "ErrorBadRequest"
        /\ \A e \in Events(r1, "ended") : log[e].status = 400
        /\ NonExcluded(r2) /\ pc[r2] = "done" /\ res[r2].ok
        /\ \A e \in Events(r2, "ended") : log[e].status = 200

(* C7: a read error of the inbound body stream ends the request as an      *)
(* error returned to the caller, with no notification to any observer and  *)
(* no call of the handler.                                                 *)
C7_DrainErrorReturnsErr ==
    \A r \in Reqs : pc[r] = "failed" =>
        /\ result[r].kind = "returned" /\ ~result[r].out.ok
        /\ Notifications(r) = {}
        /\ Events(r, "call") = {}

(* The observers of the events of one kind of request r, in log order. *)
RECURSIVE ObsOf(_, _, _)
ObsOf(l, r, e) ==
    IF l = <<>> THEN <<>>
    ELSE (IF Head(l).r = r /\ Head(l).ev = e THEN <<Head(l).obs>> ELSE <<>>)
         \o ObsOf(Tail(l), r, e)

(* C8: each fan-out of an observed request calls the observers in the      *)
(* order they were registered, each once; all start callbacks have         *)
(* returned when the handler is called.                                    *)
C8_FanoutInRegistrationOrder ==
    \A r \in Reqs : NonExcluded(r) =>
        LET starts == ObsOf(log, r, "started")
            ends == ObsOf(log, r, "ended")
        IN /\ starts \in {<<>>, registered}
           /\ ends \in {<<>>, registered}
           /\ Events(r, "call") # {} =>
                 /\ starts = registered
                 /\ \A c \in Events(r, "call"), k \in Events(r, "started") : k < c
           /\ pc[r] = "done" => ends = registered

C8_Witness ==
    \E r \in Reqs :
        /\ NonExcluded(r)
        /\ pc[r] = "done"
        /\ registered = <<"o2", "o1">>
        /\ ObsOf(log, r, "started") = <<"o2", "o1">>
        /\ ObsOf(log, r, "ended") = <<"o2", "o1">>

(* C9: however the notifications of concurrent requests interleave,        *)
(* distinct requests carry distinct identifiers, every end notification an *)
(* observer received follows exactly one start notification that observer  *)
(* received with the same identifier, for the same request, and no         *)
(* identifier comes in two starts or two ends of one observer.             *)
C9_Correlation ==
    /\ \A r1, r2 \in Reqs :
          NonExcluded(r1) /\ NonExcluded(r2) /\ r1 # r2 =>
              request_id[r1] # request_id[r2]
    /\ \A e \in 1..Len(log) : log[e].ev = "ended" =>
          LET starts == {k \in 1..Len(log) : /\ log[k].ev = "started"
                                            /\ log[k].obs = log[e].obs
                                            /\ log[k].id = log[e].id}
          IN /\ Cardinality(starts) = 1
             /\ \A k \in starts : k < e /\ log[k].r = log[e].r
    /\ \A k1, k2 \in 1..Len(log) :
          /\ log[k1].ev \in {"started", "ended"}
          /\ log[k1].ev = log[k2].ev
          /\ log[k1].obs = log[k2].obs
          /\ log[k1].id = log[k2].id
          => k1 = k2

C9_Witness ==
    \E r1, r2 \in Reqs :
        /\ r1 # r2
        /\ \E s1 \in Events(r1, "started"), s2 \in Events(r2, "started"),
              e1 \in Events(r1, "ended"), e2 \in Events(r2, "ended") :
              s1 < s2 /\ s2 < e1 /\ e1 < e2

(* C10: once the host has dropped a request's task, no end notification of *)
(* that request is delivered; the start notifications it delivered stay,   *)
(* and dropping it changes nothing of the other requests.                  *)
C10_CancelledNeverEnds ==
    [][\A r \in Reqs :
          /\ pc[r] = "cancelled" =>
                /\ pc'[r] = "cancelled"
                /\ {k \in 1..Len(log') : log'[k].r = r /\ log'[k].ev = "ended"} = {}
          /\ pc[r] # "cancelled" /\ pc'[r] = "cancelled" =>
                /\ Events(r, "ended") = {}
                /\ log' = log
                /\ \A r2 \in Reqs \ {r} :
                      /\ pc'[r2] = pc[r2]
                      /\ reqPayload'[r2] = reqPayload[r2]
                      /\ payload'[r2] = payload[r2]
                      /\ body'[r2] = body[r2]
                      /\ request_id'[r2] = request_id[r2]
                      /\ result'[r2] = result[r2]]_vars

C10_Witness ==
    \E r1, r2 \in Reqs :
        /\ pc[r1] = "cancelled"
        /\ Observers # {}
        /\ Events(r1, "started") # {}
        /\ Events(r1, "ended") = {}
        /\ pc[r2] = "done"
        /\ \E k \in Events(r1, "started"), s \in Events(r2, "started") : k < s
        /\ Events(r2, "ended") # {}

----------------------------------------------------------------------------
(* call() took the request for an excluded one: it generated no identifier *)
(* and handed the request to the handler as it came (lib.rs 166-168).      *)
TakenAsExcluded(r) == Submitted(r) /\ request_id[r] = NoId

(* The path is one handed to exclude(), or one of the patterns handed to   *)
(* exclude_regex() matches it.                                             *)
RuleCovers(p) ==
    \/ p \in addedPaths
    \/ \E pat \in addedPatterns : RegexIsMatch(pat, p)

(* C11: a request is taken as excluded exactly when its path is a member   *)
(* of the set of paths added with exclude() or matches at least one        *)
(* pattern added with exclude_regex(); the exact comparison does not       *)
(* normalise, so a path differing from an excluded one by a trailing slash *)
(* or by letter case is not excluded by the exact set.                     *)
C11_ExclusionDecision ==
    \A r \in Reqs : Submitted(r) => (TakenAsExcluded(r) <=> RuleCovers(path[r]))

C11_Witness ==
    /\ addedPaths = {Bye}
    /\ addedPatterns = {PatDigitsPlus}
    /\ \E r1, r2 \in Reqs :
           /\ path[r1] = ByeSlash /\ Submitted(r1) /\ ~TakenAsExcluded(r1)
           /\ path[r2] = Bye /\ TakenAsExcluded(r2)

(* C12: exclude_regex() with a pattern of invalid syntax panics inside     *)
(* that call and leaves the configuration as it was; after a panic of the  *)
(* builder no middleware is constructed; the pattern set a request is      *)
(* matched against holds compiled (valid) patterns only.                   *)
C12_InvalidPatternFailsAtBuild ==
    /\ [](\A k \in 1..Len(inner.exclude_regex) : ValidPattern(inner.exclude_regex[k]))
    /\ [][(\E pat \in MatcherPatternArgs : ~ValidPattern(pat) /\ ExcludeRegex(pat))
              => panicked' /\ inner' = inner /\ installed' = installed]_vars
    /\ [][panicked => installed' = installed]_vars

C12_Witness ==
    /\ panicked
    /\ ~installed
    /\ inner.exclude_regex = <<PatDigit>>

(* C13: once new_transform has installed the configuration, no step, be it *)
(* a later exclude / exclude_regex / register call or the handling of a    *)
(* request, changes the exclude set, the pattern set or the observer list. *)
C13_InstalledConfigFrozen == [][installed => inner' = inner]_vars

C13_Witness ==
    /\ installed
    /\ panicked
    /\ inner.exclude = {Bye}
    /\ inner.exclude_regex = <<PatDigitsPlus>>
    /\ Len(inner.observers) = 2

(* C14: the elapsed time of every end-notification is non-negative and is  *)
(* the clock reading taken after the handler returned minus the request's  *)
(* start instant; the start instant is not later than any start            *)
(* notification of the request, so elapsed covers draining, the start      *)
(* callbacks and handling; all observers of one request get the same       *)
(* elapsed value.                                                          *)
C14_ElapsedFromStart ==
    \A r \in Reqs : \A e \in Events(r, "ended") :
        /\ log[e].elapsed >= 0
        /\ \A t \in Events(r, "ret") : log[e].elapsed = log[t].at - start[r]
        /\ \A k \in Events(r, "started") :
               /\ start[r] <= log[k].at
               /\ log[e].elapsed >= log[e].at - log[k].at
        /\ \A e2 \in Events(r, "ended") : log[e2].elapsed = log[e].elapsed

C14_Witness ==
    \E r1, r2 \in Reqs :
        /\ start[r1] = 0
        /\ Cardinality(Events(r1, "ended")) = 2
        /\ \A k \in Events(r1, "started") : log[k].at = 1
        /\ \A e \in Events(r1, "ended") : log[e].elapsed = 2
        /\ start[r2] = 1
        /\ Cardinality(Events(r2, "ended")) = 2
        /\ \A e \in Events(r2, "ended") : log[e].elapsed = 1

(* C15: with the configuration of the crate's example, exclude("/bye") and *)
(* exclude_regex("^/\d$"), a request to a numbered route such as "/123456" *)
(* is taken as excluded.                                                   *)
C15_DocExampleExcludesNumbered ==
    \A r \in Reqs :
        /\ inner.exclude = {Bye}
        /\ inner.exclude_regex = <<PatDigit>>
        /\ Submitted(r)
        /\ path[r] = Num123456
        => TakenAsExcluded(r)

(* C16: every start notification of a request carries the bytes of the     *)
(* original body, also the one delivered after an observer that wrote into *)
(* the body it was given, and the handler reads the original body too.     *)
C16_ObserversGetOwnCopy ==
    \A r \in Reqs :
        /\ \A k \in Events(r, "started") : log[k].body = Concat(inbound[r])
        /\ handlerRead[r] # NotRead => handlerRead[r].bytes = Concat(inbound[r])

C16_Witness ==
    \E r \in Reqs :
        /\ inner.observers = <<"o1", "o2">>
        /\ Len(inbound[r]) = 2
        /\ ObserverLeaves("o1", Concat(inbound[r])) # Concat(inbound[r])
        /\ \E k \in EventsBy(r, "started", "o2") : log[k].body = <<1, 2, 3>>
        /\ handlerRead[r] = [bytes |-> <<1, 2, 3>>, end |-> "eof"]

(* C17: no task holds exclusive access to the shared service between two   *)
(* of its steps, and no request fails to borrow the service, whatever the  *)
(* other requests in flight are doing.                                     *)
C17_HandlerReentrant ==
    /\ svcMutBorrows = {}
    /\ \A r \in Reqs : result[r] # BorrowPanic

(* Request r1 is still in its handler while r2, submitted after r1 was     *)
(* dispatched, has run from its start fan-out to its exit.                  *)
C17_Witness ==
    \E r1, r2 \in Reqs :
        /\ pc[r1] = "handling"
        /\ pc[r2] = "done"
        /\ NonExcluded(r2)
        /\ Events(r2, "started") # {} /\ Events(r2, "ended") # {}
        /\ Events(r2, "call") # {} /\ Events(r2, "ret") # {}
        /\ \A c \in Events(r1, "call") : \A k \in Events(r2, "started") : c < k

(* The request was handed on undrained as an excluded one, or its task has *)
(* left the drain loop having met no read error.                           *)
BodyDrainedOk(r) ==
    \/ TakenAsExcluded(r)
    \/ /\ Submitted(r)
       /\ pc[r] # "draining"
       /\ payload[r].items = <<>>
       /\ \A k \in 1..Len(inbound[r]) : inbound[r][k][1] = "ok"

HandlerCalls(r) == Cardinality(Events(r, "call"))

StartCallbackPanicked(r) == panicAt[r] > 0 /\ Events(r, "ret") = {}

C19_ObserverPanicPropagates ==
    \A r \in Reqs : panicAt[r] > 0 =>
        LET fanout == IF Events(r, "ret") # {} THEN "ended" ELSE "started"
        IN /\ pc[r] = "failed"
           /\ result[r] = Panic
           /\ \A j \in 1..Len(inner.observers) :
                  Cardinality(EventsBy(r, fanout, inner.observers[j])) =
                      IF j <= panicAt[r] THEN 1 ELSE 0
           /\ fanout = "started" =>
                  Events(r, "call") = {} /\ Events(r, "ended") = {}

C19_Witness ==
    \E r1, r2 \in Reqs :
        /\ Len(inner.observers) = 2
        /\ panicAt[r1] = 1 /\ Events(r1, "ret") = {}
        /\ Cardinality(Events(r1, "started")) = 1
        /\ panicAt[r2] = 1 /\ Events(r2, "ret") # {}
        /\ Cardinality(Events(r2, "started")) = 2
        /\ Cardinality(Events(r2, "ended")) = 1

PatternsInEffect == {inner.exclude_regex[k] : k \in 1..Len(inner.exclude_regex)}

(* C20: after any sequence of exclude and exclude_regex calls that         *)
(* returned, the exclude set is the set of the paths added (a path added   *)
(* twice is there once), the pattern set holds every pattern added, and    *)
(* the decision for any path is fixed by the set of paths and the set of   *)
(* patterns added, whatever the order of the calls.                        *)
C20_RulesAccumulate ==
    /\ inner.exclude = addedPaths
    /\ PatternsInEffect = addedPatterns
    /\ \A p \in MatcherPaths : Excluded(inner, p) <=> RuleCovers(p)

C20_Witness ==
    /\ addedPaths = {Bye, Hey}
    /\ inner.exclude_regex = <<PatDigitsPlus, PatDigit>>
    /\ Excluded(inner, Num123456)
    /\ ~Excluded(inner, ByeUpper)

====
